---- MODULE Spec2Model ----
\* Model of the memlog Registry (package memlog): New, Registry.Access and
\* Registry.Close, run by concurrent goroutines, together with the stores
\* that Access hands out.
EXTENDS Naturals, Integers, Sequences, FiniteSets, TLC

\* ---------------------------------------------------------------- bounds
\* Goroutines that call into the registry.
NumThreads == 2
\* Stores the registry hands out in one run.
MaxStores == 2

\* Log sizes tried on each side of 10 MiB.
CpWindow == 60

\* Events in one batch.
MaxBatch == 2

\* Log entries between two checkpoints.
MaxLog == 2

Threads == 1..NumThreads

\* ------------------------------------------------------- paths (strings)
\* A path is a sequence of one-character strings.
Sep == "/"
DotDot == <<".", ".">>

\* Store names handed to Access.
Names == { <<"a">>, <<"b">>, <<"a", "/">> }

\* settings.Root after filepath.Abs: an absolute, clean path.
RootDir == <<"/", "r">>

\* The components of a path between separators (empty ones included).
RECURSIVE Components(_, _, _)
Components(s, cur, acc) ==
    IF s = <<>> THEN Append(acc, cur)
    ELSE IF Head(s) = Sep
         THEN Components(Tail(s), <<>>, Append(acc, cur))
         ELSE Components(Tail(s), Append(cur, Head(s)), acc)

\* filepath.Clean's treatment of the components: empty and "." components are
\* dropped, ".." removes the component before it (at the root it is dropped,
\* at the start of a relative path it is kept).
RECURSIVE Resolve(_, _, _)
Resolve(cs, out, rooted) ==
    IF cs = <<>> THEN out
    ELSE LET c == Head(cs) IN
         IF c = <<>> \/ c = <<".">> THEN Resolve(Tail(cs), out, rooted)
         ELSE IF c = DotDot
              THEN IF out # <<>> /\ out[Len(out)] # DotDot
                   THEN Resolve(Tail(cs), SubSeq(out, 1, Len(out) - 1), rooted)
                   ELSE IF rooted
                        THEN Resolve(Tail(cs), out, rooted)
                        ELSE Resolve(Tail(cs), Append(out, c), rooted)
              ELSE Resolve(Tail(cs), Append(out, c), rooted)

\* The components joined by single separators.
RECURSIVE JoinSep(_)
JoinSep(cs) ==
    IF cs = <<>> THEN <<>>
    ELSE IF Len(cs) = 1 THEN Head(cs)
         ELSE Head(cs) \o <<Sep>> \o JoinSep(Tail(cs))

\* filepath.Clean
Clean(p) ==
    IF p = <<>> THEN <<".">>
    ELSE LET rooted == Head(p) = Sep
             body == JoinSep(Resolve(Components(p, <<>>, <<>>), <<>>, rooted))
         IN IF rooted THEN <<Sep>> \o body
            ELSE IF body = <<>> THEN <<".">> ELSE body

\* filepath.Join of two elements: empty elements are ignored, the rest is
\* joined by the separator and cleaned.
Join(a, b) ==
    IF a = <<>> /\ b = <<>> THEN <<>>
    ELSE IF a = <<>> THEN Clean(b)
    ELSE IF b = <<>> THEN Clean(a)
    ELSE Clean(a \o <<Sep>> \o b)

\* ----------------------------------------------------------------- state
VARIABLES
    active,      \* Registry.active
    mu,          \* Registry.mu: 0 when unlocked, else the goroutine holding it
    wg,          \* Registry.wg: the wait group's counter
    settings,    \* Registry.settings
    stores,      \* the stores opened by openStore, in order of opening
    pc,          \* each goroutine's position
    arg,         \* the name a goroutine passed to Access
    ret,         \* what the goroutine's last call returned
    issuedInactive,   \* the goroutine's Access was issued when active was false
    issuedAfterDone,  \* the goroutine's Close was issued after a Close returned
    closeDone    \* some Close call has returned

vars == <<active, mu, wg, settings, stores, pc, arg, ret,
          issuedInactive, issuedAfterDone, closeDone>>

\* ------------------------------------------- the other components' state
VARIABLES
    cpSize,   \* the log size handed to the checkpoint predicate
    cpResult,   \* what the predicate returned for it
    newArgs,   \* the settings and the environment New is called with
    newRet,   \* what New returned
    rotMem,   \* the store's state in memory
    rotCkpt,   \* the checkpoint file
    rotTmp,   \* the temporary checkpoint file
    rotLog,   \* the log file
    rotPc,   \* the position in the checkpoint
    rotRecovered,   \* the state a reopen recovered after a crash
    spyEnv,   \* the configuration and the environment makeSpyder runs in
    spyPc,   \* the position in makeSpyder
    spyErr,   \* makeSpyder's local variable err
    spyOpened,   \* the FIFO has been opened
    spyRet,   \* what makeSpyder returned
    events,   \* the events of the batch
    pubPc,   \* the position in Publish
    pubIdx,   \* the index of the event published next
    dropped,   \* Publish's dropped counter
    calls,   \* the calls made on the observer, the writer and the batch
    pubRet,   \* what Publish returned
    audEnv,   \* the outcomes of the audit client's calls
    audPc,   \* the position in deleteAuditdRules
    audCalls,   \* the calls made on the audit client
    audRet   \* what deleteAuditdRules returned

checkpointVars == <<cpSize, cpResult>>
newVars == <<newArgs, newRet>>
rotationVars == <<rotMem, rotCkpt, rotTmp, rotLog, rotPc, rotRecovered>>
spyderVars == <<spyEnv, spyPc, spyErr, spyOpened, spyRet>>
publishVars == <<events, pubPc, pubIdx, dropped, calls, pubRet>>
auditVars == <<audEnv, audPc, audCalls, audRet>>

\* What a step of the registry leaves alone.
otherVars == <<checkpointVars, newVars, rotationVars, spyderVars, publishVars, auditVars>>
\* What a step of the checkpoint predicate leaves alone.
checkpointFrame == <<vars, newVars, rotationVars, spyderVars, publishVars, auditVars>>
\* What a step of New leaves alone.
newFrame == <<vars, checkpointVars, rotationVars, spyderVars, publishVars, auditVars>>
\* What a step of a store's checkpoint leaves alone.
rotationFrame == <<vars, checkpointVars, newVars, spyderVars, publishVars, auditVars>>
\* What a step of makeSpyder leaves alone.
spyderFrame == <<vars, checkpointVars, newVars, rotationVars, publishVars, auditVars>>
\* What a step of console.Publish leaves alone.
publishFrame == <<vars, checkpointVars, newVars, rotationVars, spyderVars, auditVars>>
\* What a step of deleteAuditdRules leaves alone.
auditFrame == <<vars, checkpointVars, newVars, rotationVars, spyderVars, publishVars>>

\* The variables of the checkpoint predicate while it is not running.
checkpointIdle == cpSize = 0 /\ cpResult = "idle"
\* The variables of New while it is not running.
newIdle == newArgs = "idle" /\ newRet = "idle"
\* The variables of a store's checkpoint while it is not running.
rotationIdle == rotMem = "idle" /\ rotCkpt = "idle" /\ rotTmp = "idle" /\ rotLog = "idle" /\ rotPc = "idle" /\ rotRecovered = "idle"
\* The variables of makeSpyder while it is not running.
spyderIdle == spyEnv = "idle" /\ spyPc = "idle" /\ spyErr = "idle" /\ spyOpened = "idle" /\ spyRet = "idle"
\* The variables of console.Publish while it is not running.
publishIdle == events = <<>> /\ pubPc = "idle" /\ pubIdx = 0 /\ dropped = 0 /\ calls = <<>> /\ pubRet = "idle"
\* The variables of deleteAuditdRules while it is not running.
auditIdle == audEnv = "idle" /\ audPc = "idle" /\ audCalls = <<>> /\ audRet = "idle"
OthersIdleBut_checkpoint == newIdle /\ rotationIdle /\ spyderIdle /\ publishIdle /\ auditIdle
OthersIdleBut_new == checkpointIdle /\ rotationIdle /\ spyderIdle /\ publishIdle /\ auditIdle
OthersIdleBut_rotation == checkpointIdle /\ newIdle /\ spyderIdle /\ publishIdle /\ auditIdle
OthersIdleBut_spyder == checkpointIdle /\ newIdle /\ rotationIdle /\ publishIdle /\ auditIdle
OthersIdleBut_publish == checkpointIdle /\ newIdle /\ rotationIdle /\ spyderIdle /\ auditIdle
OthersIdleBut_audit == checkpointIdle /\ newIdle /\ rotationIdle /\ spyderIdle /\ publishIdle

\* All the variables.
allVars == <<vars, otherVars>>

NoName == <<>>
Pending == [err |-> "pending", store |-> 0]
NilErr == [err |-> "nil", store |-> 0]
ErrRegClosed == [err |-> "errRegClosed", store |-> 0]

AccessPcs == {"a_lock", "a_open"}
ClosePcs == {"c_lock", "c_wait"}
RestPcs == {"idle", "a_done", "c_done"}

\* The outcomes of openStore: a store, or an error (incompatible version,
\* I/O failure).
OpenOutcomes == {"nil", "errOpen"}

\* The store that a successful openStore builds on the directory home.  Every
\* call builds a store of its own.
openStore(name, home) == [name |-> name, home |-> home, open |-> TRUE]

\* The other components while the registry runs.
OthersIdle == checkpointIdle /\ newIdle /\ rotationIdle /\ spyderIdle /\ publishIdle /\ auditIdle

\* New: the registry starts active, with the root resolved to an absolute path.
RegistryInit ==
    /\ active = TRUE
    /\ mu = 0
    /\ wg = 0
    /\ settings = [Root |-> RootDir]
    /\ stores = <<>>
    /\ pc = [t \in Threads |-> "idle"]
    /\ arg = [t \in Threads |-> NoName]
    /\ ret = [t \in Threads |-> Pending]
    /\ issuedInactive = [t \in Threads |-> FALSE]
    /\ issuedAfterDone = [t \in Threads |-> FALSE]
    /\ closeDone = FALSE

Init == RegistryInit /\ OthersIdle

OpenStores == { i \in 1..Len(stores) : stores[i].open }

\* ---------------------------------------------------------------- Access
\* A goroutine calls r.Access(name) and blocks in r.mu.Lock().
AccessCall(t, name) ==
    /\ pc[t] \in RestPcs
    /\ \/ ~active
       \/ Len(stores) + Cardinality({u \in Threads : pc[u] \in AccessPcs}) < MaxStores
    /\ pc' = [pc EXCEPT ![t] = "a_lock"]
    /\ arg' = [arg EXCEPT ![t] = name]
    /\ ret' = [ret EXCEPT ![t] = Pending]
    /\ issuedInactive' = [issuedInactive EXCEPT ![t] = ~active]
    /\ issuedAfterDone' = [issuedAfterDone EXCEPT ![t] = FALSE]
    /\ UNCHANGED <<active, mu, wg, settings, stores, closeDone>>
    /\ UNCHANGED otherVars

\* A check that lets every call through to openStore.
AccessCheck_NoCheck(t) ==
    /\ pc[t] = "a_lock"
    /\ mu = 0
    /\ mu' = t
    /\ pc' = [pc EXCEPT ![t] = "a_open"]
    /\ UNCHANGED <<active, wg, settings, stores, arg, ret,
                   issuedInactive, issuedAfterDone, closeDone>>
    /\ UNCHANGED otherVars

\* A check that gives the lock back before the store is opened.
AccessCheck_UnlockBeforeOpen(t) ==
    /\ pc[t] = "a_lock"
    /\ mu = 0
    /\ IF ~active
       THEN /\ ret' = [ret EXCEPT ![t] = ErrRegClosed]
            /\ pc' = [pc EXCEPT ![t] = "a_done"]
            /\ arg' = [arg EXCEPT ![t] = NoName]
       ELSE /\ pc' = [pc EXCEPT ![t] = "a_open"]
            /\ UNCHANGED <<ret, arg>>
    /\ UNCHANGED <<active, mu, wg, settings, stores,
                   issuedInactive, issuedAfterDone, closeDone>>
    /\ UNCHANGED otherVars

\* r.mu.Lock(); defer r.mu.Unlock(); if !r.active { return nil, errRegClosed }
\* On the closed path the deferred unlock runs and the call returns; otherwise
\* the goroutine goes on to open the store, holding the lock.
AccessCheck(t) ==
    /\ pc[t] = "a_lock"
    /\ mu = 0
    /\ IF ~active
       THEN /\ ret' = [ret EXCEPT ![t] = ErrRegClosed]
            /\ pc' = [pc EXCEPT ![t] = "a_done"]
            /\ arg' = [arg EXCEPT ![t] = NoName]
            /\ UNCHANGED mu
       ELSE /\ mu' = t
            /\ pc' = [pc EXCEPT ![t] = "a_open"]
            /\ UNCHANGED <<ret, arg>>
    /\ UNCHANGED <<active, wg, settings, stores,
                   issuedInactive, issuedAfterDone, closeDone>>
    /\ UNCHANGED otherVars

\* An Access that unlocks on the success path only.
AccessOpen_NoUnlockOnError(t) ==
    /\ pc[t] = "a_open"
    /\ \E outcome \in OpenOutcomes :
         IF outcome = "nil"
         THEN /\ stores' = Append(stores,
                                  openStore(arg[t], Join(settings.Root, arg[t])))
              /\ ret' = [ret EXCEPT ![t] = [err |-> "nil", store |-> Len(stores) + 1]]
              /\ mu' = 0
         ELSE /\ ret' = [ret EXCEPT ![t] = [err |-> outcome, store |-> 0]]
              /\ UNCHANGED <<stores, mu>>
    /\ arg' = [arg EXCEPT ![t] = NoName]
    /\ pc' = [pc EXCEPT ![t] = "a_done"]
    /\ UNCHANGED <<active, wg, settings,
                   issuedInactive, issuedAfterDone, closeDone>>
    /\ UNCHANGED otherVars

\* home := filepath.Join(r.settings.Root, name); store, err := openStore(...);
\* the return of the store or of the error, and the deferred r.mu.Unlock().
AccessOpen(t) ==
    /\ pc[t] = "a_open"
    /\ \E outcome \in OpenOutcomes :
         IF outcome = "nil"
         THEN /\ stores' = Append(stores,
                                  openStore(arg[t], Join(settings.Root, arg[t])))
              /\ ret' = [ret EXCEPT ![t] = [err |-> "nil", store |-> Len(stores) + 1]]
         ELSE /\ ret' = [ret EXCEPT ![t] = [err |-> outcome, store |-> 0]]
              /\ UNCHANGED stores
    /\ arg' = [arg EXCEPT ![t] = NoName]
    /\ mu' = 0
    /\ pc' = [pc EXCEPT ![t] = "a_done"]
    /\ UNCHANGED <<active, wg, settings,
                   issuedInactive, issuedAfterDone, closeDone>>
    /\ UNCHANGED otherVars

\* ----------------------------------------------------------------- Close
\* A goroutine calls r.Close() and blocks in r.mu.Lock().
CloseCall(t) ==
    /\ pc[t] \in RestPcs
    /\ pc' = [pc EXCEPT ![t] = "c_lock"]
    /\ arg' = [arg EXCEPT ![t] = NoName]
    /\ ret' = [ret EXCEPT ![t] = Pending]
    /\ issuedInactive' = [issuedInactive EXCEPT ![t] = FALSE]
    /\ issuedAfterDone' = [issuedAfterDone EXCEPT ![t] = closeDone]
    /\ UNCHANGED <<active, mu, wg, settings, stores, closeDone>>
    /\ UNCHANGED otherVars

\* A Close that toggles the flag.
CloseFlip_Toggle(t) ==
    /\ pc[t] = "c_lock"
    /\ mu = 0
    /\ active' = ~active
    /\ pc' = [pc EXCEPT ![t] = "c_wait"]
    /\ UNCHANGED <<mu, wg, settings, stores, arg, ret,
                   issuedInactive, issuedAfterDone, closeDone>>
    /\ UNCHANGED otherVars

\* A Close that reports a registry that is closed already as an error.
CloseFlip_ErrIfClosed(t) ==
    /\ pc[t] = "c_lock"
    /\ mu = 0
    /\ IF ~active
       THEN /\ ret' = [ret EXCEPT ![t] = ErrRegClosed]
            /\ pc' = [pc EXCEPT ![t] = "c_done"]
            /\ UNCHANGED active
       ELSE /\ active' = FALSE
            /\ pc' = [pc EXCEPT ![t] = "c_wait"]
            /\ UNCHANGED ret
    /\ UNCHANGED <<mu, wg, settings, stores, arg,
                   issuedInactive, issuedAfterDone, closeDone>>
    /\ UNCHANGED otherVars

\* A Close that defers its unlock, and so waits with the lock held.
CloseFlip_DeferUnlock(t) ==
    /\ pc[t] = "c_lock"
    /\ mu = 0
    /\ mu' = t
    /\ active' = FALSE
    /\ pc' = [pc EXCEPT ![t] = "c_wait"]
    /\ UNCHANGED <<wg, settings, stores, arg, ret,
                   issuedInactive, issuedAfterDone, closeDone>>
    /\ UNCHANGED otherVars

\* r.mu.Lock(); r.active = false; r.mu.Unlock()
CloseFlip(t) ==
    /\ pc[t] = "c_lock"
    /\ mu = 0
    /\ active' = FALSE
    /\ pc' = [pc EXCEPT ![t] = "c_wait"]
    /\ UNCHANGED <<mu, wg, settings, stores, arg, ret,
                   issuedInactive, issuedAfterDone, closeDone>>
    /\ UNCHANGED otherVars

\* r.wg.Wait(); return nil.  Wait blocks while the counter is not zero.
CloseWait(t) ==
    /\ pc[t] = "c_wait"
    /\ wg = 0
    /\ ret' = [ret EXCEPT ![t] = NilErr]
    /\ pc' = [pc EXCEPT ![t] = "c_done"]
    /\ closeDone' = TRUE
    /\ UNCHANGED <<active, mu, wg, settings, stores, arg,
                   issuedInactive, issuedAfterDone>>
    /\ UNCHANGED otherVars

\* ----------------------------------------------------------------- Store
\* The holder of a store closes it.  Access built the store by
\* openStore(logger, home, fileMode, bufSz, IgnoreVersionCheck, Checkpoint):
\* the store was given no reference to the registry, so its Close has no way
\* to reach r.wg and leaves the counter alone.
StoreClose(i) ==
    /\ i \in OpenStores
    /\ stores' = [stores EXCEPT ![i].open = FALSE]
    /\ UNCHANGED <<active, mu, wg, settings, pc, arg, ret,
                   issuedInactive, issuedAfterDone, closeDone>>
    /\ UNCHANGED otherVars

Next ==
    \/ \E t \in Threads, name \in Names : AccessCall(t, name)
    \/ \E t \in Threads : AccessCheck(t)
    \/ \E t \in Threads : AccessOpen(t)
    \/ \E t \in Threads : CloseCall(t)
    \/ \E t \in Threads : CloseFlip(t)
    \/ \E t \in Threads : CloseWait(t)
    \/ \E i \in 1..Len(stores) : StoreClose(i)

Spec == Init /\ [][Next]_vars

\* --------------------------------------------------- checkpoint predicate
\* x << n
Shl(x, n) == x * 2^n

\* A predicate that fires only above the limit.
defaultCheckpoint_Strict(filesize) ==
    LET limit == Shl(10 * 1, 20) IN filesize > limit

\* func defaultCheckpoint(filesize uint64) bool: limit is 10 * 1 << 20, and
\* multiplication and shift associate to the left.
defaultCheckpoint(filesize) ==
    LET limit == Shl(10 * 1, 20) IN filesize >= limit

\* The log sizes a store hands to the predicate.
CpSizes ==
    {0, 1, 4096, 1048576, 10000000, 1073741824}
        \cup ((10485760 - CpWindow)..(10485760 + CpWindow))

\* A store whose log has some size.
CheckpointInit ==
    /\ cpSize \in CpSizes
    /\ cpResult = "none"

\* The store evaluates settings.Checkpoint, the default predicate, on the size
\* of its log.
CheckpointEval ==
    /\ cpResult = "none"
    /\ cpResult' = IF defaultCheckpoint(cpSize) THEN "true" ELSE "false"
    /\ UNCHANGED cpSize
    /\ UNCHANGED checkpointFrame

\* The log grows by further appends, and the predicate is due again.
CheckpointGrow ==
    /\ cpResult # "none"
    /\ \E size \in CpSizes :
         /\ size > cpSize
         /\ cpSize' = size
    /\ cpResult' = "none"
    /\ UNCHANGED checkpointFrame

CheckpointNext == CheckpointEval \/ CheckpointGrow

\* The registry and the other components stay as constructed.
InitCheckpoint == CheckpointInit /\ RegistryInit /\ OthersIdleBut_checkpoint

SpecCheckpoint == InitCheckpoint /\ [][CheckpointNext]_allVars

\* -------------------------------------------------------------------- New
\* const defaultFileMode os.FileMode = 0600
defaultFileMode == 384
\* const defaultBufferSize = 4 * 1024
defaultBufferSize == 4 * 1024

IsAbs(path) == path # <<>> /\ Head(path) = Sep

\* filepath.Abs: an absolute path is cleaned; a relative one is joined to the
\* working directory, and Abs fails when that cannot be determined.
Abs(path, getwd) ==
    IF IsAbs(path) THEN [path |-> Clean(path), err |-> "nil"]
    ELSE IF getwd.err # "nil" THEN [path |-> <<>>, err |-> getwd.err]
    ELSE [path |-> Join(getwd.dir, path), err |-> "nil"]

\* A New that drops the resolved root.
New_KeepsGivenRoot(cfg, getwd) ==
    LET fileMode == IF cfg.FileMode = 0 THEN defaultFileMode
                    ELSE cfg.FileMode
        checkpoint == IF cfg.Checkpoint = "nil" THEN "defaultCheckpoint"
                      ELSE cfg.Checkpoint
        bufferSize == IF cfg.BufferSize = 0 THEN defaultBufferSize
                      ELSE cfg.BufferSize
        abs == Abs(cfg.Root, getwd)
    IN IF abs.err # "nil"
       THEN [state |-> "returned", registry |-> <<>>, err |-> abs.err]
       ELSE [state |-> "returned",
             registry |-> << [active |-> TRUE,
                              settings |-> [Root |-> cfg.Root,
                                            FileMode |-> fileMode,
                                            BufferSize |-> bufferSize,
                                            Checkpoint |-> checkpoint,
                                            IgnoreVersionCheck |->
                                                cfg.IgnoreVersionCheck]] >>,
             err |-> "nil"]

\* func New(log, settings) (*Registry, error): the registry, as a sequence of
\* one element, or no registry and the error.
New(cfg, getwd) ==
    LET fileMode == IF cfg.FileMode = 0 THEN defaultFileMode
                    ELSE cfg.FileMode
        checkpoint == IF cfg.Checkpoint = "nil" THEN "defaultCheckpoint"
                      ELSE cfg.Checkpoint
        bufferSize == IF cfg.BufferSize = 0 THEN defaultBufferSize
                      ELSE cfg.BufferSize
        abs == Abs(cfg.Root, getwd)
    IN IF abs.err # "nil"
       THEN [state |-> "returned", registry |-> <<>>, err |-> abs.err]
       ELSE [state |-> "returned",
             registry |-> << [active |-> TRUE,
                              settings |-> [Root |-> abs.path,
                                            FileMode |-> fileMode,
                                            BufferSize |-> bufferSize,
                                            Checkpoint |-> checkpoint,
                                            IgnoreVersionCheck |->
                                                cfg.IgnoreVersionCheck]] >>,
             err |-> "nil"]

\* The settings New is called with.
NewRoots == { <<>>, <<"a">>, <<".", "/", "a">>, <<"a", "/", ".", ".">>,
              <<"/", "r">>, <<"/", "r", "/", ".", ".", "/", "s">> }
NewSettings ==
    [Root : NewRoots,
     FileMode : {0, 384, 420},
     BufferSize : {0, 1, 4096, 8192},
     Checkpoint : {"nil", "custom"},
     IgnoreVersionCheck : BOOLEAN]

\* What os.Getwd gives to filepath.Abs.
Getwds == { [dir |-> <<"/", "w">>, err |-> "nil"],
            [dir |-> <<>>, err |-> "errGetwd"] }

NewInit ==
    /\ newArgs \in [settings : NewSettings, getwd : Getwds]
    /\ newRet = [state |-> "pending", registry |-> <<>>, err |-> "nil"]

NewCall ==
    /\ newRet.state = "pending"
    /\ newRet' = New(newArgs.settings, newArgs.getwd)
    /\ UNCHANGED newArgs
    /\ UNCHANGED newFrame

NewNext == NewCall

\* The registry and the other components stay as constructed.
InitNew == NewInit /\ RegistryInit /\ OthersIdleBut_new

SpecNew == InitNew /\ [][NewNext]_allVars

\* ------------------------------------------------------------- makeSpyder
\* outputs.Fail(err): no clients, and the error it is given.
Fail(err) == [err |-> err, clients |-> 0]
\* outputs.Success(batchSize, retry, c): a group of the one client.
Success == [err |-> "nil", clients |-> 1]
NoReturn == [err |-> "none", clients |-> 0]

\* What the calls of makeSpyder meet: the outcome of cfg.Unpack, whether the
\* codec is configured and what codec.CreateEncoder gives then, what os.Stat
\* finds at the FIFO path, the outcome of os.OpenFile and of c.out.Stat, and
\* the operating system.
SpyEnvs ==
    [unpack : {"nil", "errUnpack"},
     codecSet : BOOLEAN,
     encoder : {"nil", "errCodec"},
     stat : {"notexist", "errStat", "dir", "fifo", "file"},
     open : {"nil", "errOpen"},
     outStat : {"nil", "errOutStat"},
     windows : BOOLEAN]

\* func file_exists(filename string) bool: false when os.Stat reports that
\* the file does not exist; under any other error info is nil and info.IsDir()
\* panics; otherwise !info.IsDir().
file_exists(stat) ==
    CASE stat = "notexist" -> "false"
      [] stat = "errStat" -> "panic"
      [] stat = "dir" -> "false"
      [] OTHER -> "true"

SpyderInit ==
    /\ spyEnv \in SpyEnvs
    /\ spyPc = "unpack"
    /\ spyErr = "nil"
    /\ spyOpened = FALSE
    /\ spyRet = NoReturn

\* err := cfg.Unpack(&config); if err != nil { return outputs.Fail(err) }
SpyUnpack ==
    /\ spyPc = "unpack"
    /\ spyErr' = spyEnv.unpack
    /\ IF spyEnv.unpack # "nil"
       THEN spyRet' = Fail(spyEnv.unpack) /\ spyPc' = "done"
       ELSE spyPc' = "encoder" /\ UNCHANGED spyRet
    /\ UNCHANGED <<spyEnv, spyOpened>>
    /\ UNCHANGED spyderFrame

\* if config.Codec.Namespace.IsSet() { enc, err = codec.CreateEncoder(...);
\* if err != nil { return outputs.Fail(err) } } else { enc = json.New(...) }
SpyEncoder ==
    /\ spyPc = "encoder"
    /\ IF spyEnv.codecSet
       THEN /\ spyErr' = spyEnv.encoder
            /\ IF spyEnv.encoder # "nil"
               THEN spyRet' = Fail(spyEnv.encoder) /\ spyPc' = "done"
               ELSE spyPc' = "fifo" /\ UNCHANGED spyRet
       ELSE /\ spyPc' = "fifo"
            /\ UNCHANGED <<spyErr, spyRet>>
    /\ UNCHANGED <<spyEnv, spyOpened>>
    /\ UNCHANGED spyderFrame

\* if !file_exists(config.FifoName) { fmt.Errorf(...); return outputs.Fail(err) }
\* The error that fmt.Errorf builds is dropped; err is the variable that the
\* calls before have left.
SpyFifoCheck ==
    /\ spyPc = "fifo"
    /\ LET exists == file_exists(spyEnv.stat) IN
         CASE exists = "panic" -> spyPc' = "panic" /\ UNCHANGED spyRet
           [] exists = "false" -> spyRet' = Fail(spyErr) /\ spyPc' = "done"
           [] OTHER -> spyPc' = "open" /\ UNCHANGED spyRet
    /\ UNCHANGED <<spyEnv, spyErr, spyOpened>>
    /\ UNCHANGED spyderFrame

\* file, err := os.OpenFile(config.FifoName, os.O_WRONLY, os.ModeNamedPipe)
\* if err != nil { fmt.Errorf(...); return outputs.Fail(err) }
SpyOpen ==
    /\ spyPc = "open"
    /\ spyErr' = spyEnv.open
    /\ IF spyEnv.open # "nil"
       THEN spyRet' = Fail(spyEnv.open) /\ spyPc' = "done" /\ UNCHANGED spyOpened
       ELSE spyOpened' = TRUE /\ spyPc' = "client" /\ UNCHANGED spyRet
    /\ UNCHANGED spyEnv
    /\ UNCHANGED spyderFrame

\* c, err := newSpyder(...), which returns no error; c.fifo = file;
\* if runtime.GOOS != "windows" { if _, err = c.out.Stat(); err != nil {...
\* return outputs.Fail(err) } }; return outputs.Success(config.BatchSize, 0, c)
SpyClient ==
    /\ spyPc = "client"
    /\ IF ~spyEnv.windows /\ spyEnv.outStat # "nil"
       THEN spyErr' = spyEnv.outStat /\ spyRet' = Fail(spyEnv.outStat)
       ELSE /\ spyErr' = (IF spyEnv.windows THEN "nil" ELSE spyEnv.outStat)
            /\ spyRet' = Success
    /\ spyPc' = "done"
    /\ UNCHANGED <<spyEnv, spyOpened>>
    /\ UNCHANGED spyderFrame

SpyderNext == SpyUnpack \/ SpyEncoder \/ SpyFifoCheck \/ SpyOpen \/ SpyClient

\* The registry and the other components stay as constructed.
InitSpyder == SpyderInit /\ RegistryInit /\ OthersIdleBut_spyder

SpecSpyder == InitSpyder /\ [][SpyderNext]_allVars

\* ---------------------------------------------------------------- Publish
\* An event, by what happens to it: whether c.codec.Encode succeeds, the length
\* of the serialized event, whether the write of its bytes and the write of
\* the newline succeed, and whether the event is guaranteed.
EventKinds ==
    { [encode |-> "nil", len |-> 1, write |-> "nil", nl |-> "nil", guaranteed |-> FALSE],
      [encode |-> "nil", len |-> 2, write |-> "nil", nl |-> "nil", guaranteed |-> TRUE],
      [encode |-> "err", len |-> 0, write |-> "nil", nl |-> "nil", guaranteed |-> FALSE],
      [encode |-> "err", len |-> 0, write |-> "nil", nl |-> "nil", guaranteed |-> TRUE],
      [encode |-> "nil", len |-> 2, write |-> "err", nl |-> "nil", guaranteed |-> FALSE],
      [encode |-> "nil", len |-> 1, write |-> "nil", nl |-> "err", guaranteed |-> TRUE] }

RECURSIVE SeqsUpTo(_, _)
SeqsUpTo(S, n) ==
    IF n = 0 THEN { <<>> }
    ELSE LET shorter == SeqsUpTo(S, n - 1) IN
         shorter \cup { Append(q, x) : q \in shorter, x \in S }

\* A publishEvent that counts the bytes before the newline is written.
publishEvent_BytesBeforeNewline(event, i) ==
    IF event.encode # "nil"
    THEN [ok |-> FALSE, calls |-> << <<"Encode", i>> >>]
    ELSE IF event.write # "nil"
    THEN [ok |-> FALSE, calls |-> << <<"Encode", i>>, <<"WriteError", i>> >>]
    ELSE IF event.nl # "nil"
    THEN [ok |-> FALSE,
          calls |-> << <<"Encode", i>>, <<"WriteBytes", event.len + 1>>,
                       <<"WriteError", i>> >>]
    ELSE [ok |-> TRUE,
          calls |-> << <<"Encode", i>>, <<"WriteBytes", event.len + 1>> >>]

\* func (c *console) publishEvent(event) bool, for the i-th event of the
\* batch: whether the event was written, and the calls made for it.
publishEvent(event, i) ==
    IF event.encode # "nil"
    THEN [ok |-> FALSE, calls |-> << <<"Encode", i>> >>]
    ELSE IF event.write # "nil"
    THEN [ok |-> FALSE, calls |-> << <<"Encode", i>>, <<"WriteError", i>> >>]
    ELSE IF event.nl # "nil"
    THEN [ok |-> FALSE, calls |-> << <<"Encode", i>>, <<"WriteError", i>> >>]
    ELSE [ok |-> TRUE,
          calls |-> << <<"Encode", i>>, <<"WriteBytes", event.len + 1>> >>]

PublishInit ==
    /\ events \in SeqsUpTo(EventKinds, MaxBatch)
    /\ pubPc = "start"
    /\ pubIdx = 0
    /\ dropped = 0
    /\ calls = <<>>
    /\ pubRet = "none"

\* st := c.observer; events := batch.Events(); st.NewBatch(len(events));
\* dropped := 0
PublishStart ==
    /\ pubPc = "start"
    /\ calls' = Append(calls, <<"NewBatch", Len(events)>>)
    /\ dropped' = 0
    /\ pubIdx' = 1
    /\ pubPc' = "loop"
    /\ UNCHANGED <<events, pubRet>>
    /\ UNCHANGED publishFrame

\* for i := range events { ok := c.publishEvent(&events[i]);
\* if !ok { dropped++ } }
PublishLoop ==
    /\ pubPc = "loop"
    /\ pubIdx <= Len(events)
    /\ LET r == publishEvent(events[pubIdx], pubIdx) IN
         /\ calls' = calls \o r.calls
         /\ dropped' = IF r.ok THEN dropped ELSE dropped + 1
    /\ pubIdx' = pubIdx + 1
    /\ UNCHANGED <<events, pubPc, pubRet>>
    /\ UNCHANGED publishFrame

\* c.writer.Flush(); batch.ACK(); st.Dropped(dropped);
\* st.Acked(len(events) - dropped); return nil
PublishFinish ==
    /\ pubPc = "loop"
    /\ pubIdx > Len(events)
    /\ calls' = calls \o << <<"Flush", 0>>, <<"ACK", 0>>, <<"Dropped", dropped>>,
                            <<"Acked", Len(events) - dropped>> >>
    /\ pubRet' = "nil"
    /\ pubPc' = "done"
    /\ UNCHANGED <<events, pubIdx, dropped>>
    /\ UNCHANGED publishFrame

PublishNext == PublishStart \/ PublishLoop \/ PublishFinish

\* The registry and the other components stay as constructed.
InitPublish == PublishInit /\ RegistryInit /\ OthersIdleBut_publish

SpecPublish == InitPublish /\ [][PublishNext]_allVars

\* ------------------------------------------------------ deleteAuditdRules
\* status.Enabled of locked audit rules (enabled == 2).
auditLocked == 2

\* The outcomes of the audit client's calls: libaudit.NewAuditClient,
\* client.GetStatus with the status it reports, client.DeleteRules, and
\* client.Close.
AuditEnvs ==
    [connect : {"nil", "err"},
     status : {"nil", "err"},
     enabled : 0..3,
     delete : {"nil", "err"},
     close : {"nil", "err"}]

AuditInit ==
    /\ audEnv \in AuditEnvs
    /\ audPc = "connect"
    /\ audCalls = <<>>
    /\ audRet = "none"

\* client, err := libaudit.NewAuditClient(nil); if err != nil { return ... };
\* defer client.Close()
AuditConnect ==
    /\ audPc = "connect"
    /\ IF audEnv.connect # "nil"
       THEN /\ audCalls' = Append(audCalls, "NewAuditClient")
            /\ audRet' = "errConnect"
            /\ audPc' = "done"
       ELSE /\ audCalls' = Append(audCalls, "NewAuditClient")
            /\ audPc' = "status"
            /\ UNCHANGED audRet
    /\ UNCHANGED audEnv
    /\ UNCHANGED auditFrame

\* status, err := client.GetStatus(); if err != nil { return err }, with the
\* deferred client.Close() on the return.
AuditGetStatus ==
    /\ audPc = "status"
    /\ IF audEnv.status # "nil"
       THEN /\ audCalls' = audCalls \o <<"GetStatus", "Close">>
            /\ audRet' = "errStatus"
            /\ audPc' = "done"
       ELSE /\ audCalls' = Append(audCalls, "GetStatus")
            /\ audPc' = "locked"
            /\ UNCHANGED audRet
    /\ UNCHANGED audEnv
    /\ UNCHANGED auditFrame

\* A check that lets locked rules through.
AuditCheckLocked_NoCheck ==
    /\ audPc = "locked"
    /\ audPc' = "delete"
    /\ UNCHANGED <<audEnv, audCalls, audRet>>
    /\ UNCHANGED auditFrame

\* if status.Enabled == auditLocked { return errors.New(...) }
AuditCheckLocked ==
    /\ audPc = "locked"
    /\ IF audEnv.enabled = auditLocked
       THEN /\ audCalls' = Append(audCalls, "Close")
            /\ audRet' = "errLocked"
            /\ audPc' = "done"
       ELSE /\ audPc' = "delete"
            /\ UNCHANGED <<audCalls, audRet>>
    /\ UNCHANGED audEnv
    /\ UNCHANGED auditFrame

\* _, err = client.DeleteRules(); if err != nil { return ... }; return nil
AuditDelete ==
    /\ audPc = "delete"
    /\ audCalls' = audCalls \o <<"DeleteRules", "Close">>
    /\ audRet' = IF audEnv.delete # "nil" THEN "errDelete" ELSE "nil"
    /\ audPc' = "done"
    /\ UNCHANGED audEnv
    /\ UNCHANGED auditFrame

AuditNext == AuditConnect \/ AuditGetStatus \/ AuditCheckLocked \/ AuditDelete

\* The registry and the other components stay as constructed.
InitAudit == AuditInit /\ RegistryInit /\ OthersIdleBut_audit

SpecAudit == InitAudit /\ [][AuditNext]_allVars

\* ------------------------------------------------- a store's log rotation
\* The keys and the values a store holds; every key starts at 0.
Keys == {"k1", "k2"}
Vals == {1, 2}
EmptyState == [k \in Keys |-> 0]
\* What a file reads as when it was not synced before a crash.
Corrupt == [k \in Keys |-> -1]

\* Recovery: the checkpoint, then the log entries in order, the last write
\* of a key winning.
RECURSIVE Replay(_, _)
Replay(state, log) ==
    IF log = <<>> THEN state
    ELSE Replay([state EXCEPT ![Head(log).key] = Head(log).val], Tail(log))

\* The checkpoint file: what it reads as now, whether that content is synced,
\* what the directory durably names as the checkpoint, and whether the
\* directory is synced.
DurableCkpt(state) ==
    [data |-> state, synced |-> TRUE, prev |-> state, dirSynced |-> TRUE]

\* The checkpoints a reopen may find after a crash now.
CrashViews ==
    LET new == IF rotCkpt.synced THEN rotCkpt.data ELSE Corrupt
    IN IF rotCkpt.dirSynced THEN {new} ELSE {new, rotCkpt.prev}

NoTmp == [exists |-> FALSE, data |-> EmptyState, synced |-> FALSE]

RotationInit ==
    /\ rotMem = EmptyState
    /\ rotCkpt = DurableCkpt(EmptyState)
    /\ rotTmp = NoTmp
    /\ rotLog = <<>>
    /\ rotPc = "ready"
    /\ rotRecovered = EmptyState

\* A write: the entry is appended to the log, durably, and applied in memory.
RotAppend(k, v) ==
    /\ rotPc = "ready"
    /\ Len(rotLog) < MaxLog
    /\ rotLog' = Append(rotLog, [key |-> k, val |-> v])
    /\ rotMem' = [rotMem EXCEPT ![k] = v]
    /\ UNCHANGED <<rotCkpt, rotTmp, rotPc, rotRecovered>>
    /\ UNCHANGED rotationFrame

\* The checkpoint predicate fired: the full state is written to a temporary
\* file.
RotWriteTmp ==
    /\ rotPc = "ready"
    /\ rotLog # <<>>
    /\ rotTmp' = [exists |-> TRUE, data |-> rotMem, synced |-> FALSE]
    /\ rotPc' = "fsync_tmp"
    /\ UNCHANGED <<rotMem, rotCkpt, rotLog, rotRecovered>>
    /\ UNCHANGED rotationFrame

\* fsync of the temporary file.
RotFsyncTmp ==
    /\ rotPc = "fsync_tmp"
    /\ rotTmp' = [rotTmp EXCEPT !.synced = TRUE]
    /\ rotPc' = "rename"
    /\ UNCHANGED <<rotMem, rotCkpt, rotLog, rotRecovered>>
    /\ UNCHANGED rotationFrame

\* A rename that goes on to truncate the log without the directory fsync.
RotRename_NoDirSync ==
    /\ rotPc = "rename"
    /\ rotCkpt' = [data |-> rotTmp.data, synced |-> rotTmp.synced,
                   prev |-> rotCkpt.data, dirSynced |-> FALSE]
    /\ rotTmp' = NoTmp
    /\ rotPc' = "truncate"
    /\ UNCHANGED <<rotMem, rotLog, rotRecovered>>
    /\ UNCHANGED rotationFrame

\* The atomic rename of the temporary file over the checkpoint file.
RotRename ==
    /\ rotPc = "rename"
    /\ rotCkpt' = [data |-> rotTmp.data, synced |-> rotTmp.synced,
                   prev |-> rotCkpt.data, dirSynced |-> FALSE]
    /\ rotTmp' = NoTmp
    /\ rotPc' = "fsync_dir"
    /\ UNCHANGED <<rotMem, rotLog, rotRecovered>>
    /\ UNCHANGED rotationFrame

\* fsync of the directory.
RotFsyncDir ==
    /\ rotPc = "fsync_dir"
    /\ rotCkpt' = [rotCkpt EXCEPT !.dirSynced = TRUE, !.prev = rotCkpt.data]
    /\ rotPc' = "truncate"
    /\ UNCHANGED <<rotMem, rotTmp, rotLog, rotRecovered>>
    /\ UNCHANGED rotationFrame

\* The log is truncated, and the store takes writes again.
RotTruncate ==
    /\ rotPc = "truncate"
    /\ rotLog' = <<>>
    /\ rotPc' = "ready"
    /\ UNCHANGED <<rotMem, rotCkpt, rotTmp, rotRecovered>>
    /\ UNCHANGED rotationFrame

\* The process crashes: the checkpoint file is one of those the disk may
\* hold, a temporary file may be left over, the log is as it was.  rotMem
\* keeps the state the store had reached.
RotCrash ==
    /\ rotPc \notin {"crashed", "recovered"}
    /\ \E c \in CrashViews : rotCkpt' = DurableCkpt(c)
    /\ rotPc' = "crashed"
    /\ UNCHANGED <<rotMem, rotTmp, rotLog, rotRecovered>>
    /\ UNCHANGED rotationFrame

\* The store is opened again: a temporary file left over is garbage, the
\* state is the checkpoint with the log replayed.
RotRecover ==
    /\ rotPc = "crashed"
    /\ rotRecovered' = Replay(rotCkpt.data, rotLog)
    /\ rotTmp' = NoTmp
    /\ rotPc' = "recovered"
    /\ UNCHANGED <<rotMem, rotCkpt, rotLog>>
    /\ UNCHANGED rotationFrame

\* The reopened store is ready, with the recovered state.
RotReopen ==
    /\ rotPc = "recovered"
    /\ rotMem' = rotRecovered
    /\ rotPc' = "ready"
    /\ UNCHANGED <<rotCkpt, rotTmp, rotLog, rotRecovered>>
    /\ UNCHANGED rotationFrame

RotationNext ==
    \/ \E k \in Keys, v \in Vals : RotAppend(k, v)
    \/ RotWriteTmp
    \/ RotFsyncTmp
    \/ RotRename
    \/ RotFsyncDir
    \/ RotTruncate
    \/ RotCrash
    \/ RotRecover
    \/ RotReopen

\* The registry and the other components stay as constructed.
InitRotation == RotationInit /\ RegistryInit /\ OthersIdleBut_rotation

SpecRotation == InitRotation /\ [][RotationNext]_allVars

\* ------------------------------------------------------------ properties

\* C1: when a Close call has returned, no store handed out by the registry
\* is still open.
C1_CloseWaitsForStores ==
    \A t \in Threads : pc[t] = "c_done" => OpenStores = {}

\* C2: an Access issued after the accepting flag was set to false never
\* reaches openStore, and it returns the closed-registry error and no store.
C2_AccessAfterCloseFails ==
    \A t \in Threads :
        issuedInactive[t] =>
            /\ pc[t] \in {"a_lock", "a_done"}
            /\ pc[t] = "a_done" => ret[t] = ErrRegClosed

C2_Witness ==
    \E t \in Threads :
        /\ issuedInactive[t]
        /\ pc[t] = "a_done"
        /\ OpenStores # {}

\* C3: the wait group's counter equals the number of stores that Access
\* returned and that are not closed yet.
C3_CounterTracksStores ==
    wg = Cardinality(OpenStores)

\* C4: the accepting flag is true after New, it only ever changes from true
\* to false, only the flag assignment of a Close changes it, and every such
\* assignment leaves it false.
C4_ActiveOneWay ==
    /\ active = TRUE
    /\ [][/\ active' => active
          /\ active' # active =>
               \E t \in Threads : pc[t] = "c_lock" /\ pc'[t] = "c_wait"
          /\ (\E t \in Threads : pc[t] = "c_lock" /\ pc'[t] = "c_wait") => ~active']_vars

C4_Witness ==
    /\ ~active
    /\ \E t \in Threads : issuedAfterDone[t] /\ pc[t] = "c_wait"

\* C5 as stated: no goroutine holds the registry lock while it opens a store.
C5_LockNotHeldAcrossOpen ==
    \A t \in Threads : pc[t] = "a_open" => mu # t

\* C5 as amended: a goroutine that opens a store holds the registry lock, and
\* no other Access or Close gets past r.mu.Lock() until it has returned.
C5_LockHeldAcrossOpen ==
    \A t \in Threads :
        pc[t] = "a_open" =>
            /\ mu = t
            /\ \A u \in Threads \ {t} :
                   /\ pc[u] \notin {"a_open"}
                   /\ ~ENABLED AccessCheck(u)
                   /\ ~ENABLED CloseFlip(u)

C5_Witness ==
    \E t, u \in Threads :
        /\ pc[t] = "a_open"
        /\ pc[u] = "c_lock"
        /\ arg[t] = <<"b">>

\* C6: a Close that waits stays blocked for as long as a store handed out by
\* the registry is open.
C6_CloseBlocksWhileStoresOpen ==
    [][\A t \in Threads :
         (pc[t] = "c_wait" /\ OpenStores # {}) => pc'[t] = "c_wait"]_vars

\* C7: a Close issued after a Close has returned finds the flag false and the
\* wait group empty, leaves them so, is not blocked in Wait, and returns nil.
C7_SecondCloseIdempotent ==
    \A t \in Threads :
        issuedAfterDone[t] =>
            /\ ~active
            /\ wg = 0
            /\ pc[t] \in {"c_lock", "c_wait", "c_done"}
            /\ pc[t] = "c_wait" => ENABLED CloseWait(t)
            /\ pc[t] = "c_done" => ret[t] = NilErr

C7_Witness ==
    \E t \in Threads : issuedAfterDone[t] /\ pc[t] = "c_done"

\* C8: stores opened under different names are bound to different
\* directories.
C8_DistinctNamesDistinctDirs ==
    \A i, j \in 1..Len(stores) :
        stores[i].name # stores[j].name => stores[i].home # stores[j].home

\* C9: no two stores opened under the same name are open at the same time.
C9_OneOpenStorePerName ==
    \A i, j \in OpenStores :
        i # j => stores[i].name # stores[j].name

\* C10: every step of an Access that does not return a store leaves the flag,
\* the settings, the wait group and the stores as they are; an Access that
\* fails returns an error and no store and does not hold the lock.
C10_FailedAccessKeepsState ==
    [][\A t \in Threads :
         (/\ pc[t] # pc'[t]
          /\ pc'[t] = "a_lock" \/ pc[t] \in AccessPcs
          /\ ~(pc'[t] = "a_done" /\ ret'[t].err = "nil"))
         => /\ UNCHANGED <<active, settings, wg, stores>>
            /\ pc'[t] = "a_done" =>
                 /\ ret'[t].err \in {"errRegClosed", "errOpen"}
                 /\ ret'[t].store = 0
                 /\ mu' # t]_vars

C10_Witness ==
    \E t \in Threads :
        /\ pc[t] = "a_done"
        /\ ret[t].err = "errOpen"
        /\ mu = 0
        /\ active
        /\ OpenStores # {}

\* C14: a store is opened, and handed out, only while the flag is true: a
\* goroutine that is opening a store finds the flag still true, no Close has
\* got to its wait while a store is being opened, and every step that adds a
\* store starts and ends with the flag true.
C14_OpenInsideCriticalSection ==
    [][/\ \A t \in Threads :
            pc'[t] = "a_open" =>
                /\ active' = TRUE
                /\ \A u \in Threads : pc'[u] # "c_wait"
       /\ Len(stores') > Len(stores) => active /\ active']_vars

C14_Witness ==
    \E t, u \in Threads :
        /\ pc[u] = "c_wait"
        /\ pc[t] = "a_done"
        /\ ret[t].err = "nil"
        /\ ret[t].store \in OpenStores

\* C15: the lock is held only by a goroutine that is opening a store, whose
\* next step releases it; a goroutine that has returned from Access, or that
\* waits in or has returned from Close, does not hold it; and an Access that
\* waits for the lock while no store is being opened can take it, also while
\* a Close is waiting, and then returns the closed-registry error.
C15_LockAlwaysReleased ==
    /\ \A t \in Threads :
           /\ mu = t => pc[t] = "a_open" /\ ENABLED AccessOpen(t)
           /\ pc[t] \in RestPcs \cup {"c_wait"} => mu # t
           /\ (pc[t] = "a_lock" /\ \A u \in Threads : pc[u] # "a_open")
                 => ENABLED AccessCheck(t)
    /\ mu \in Threads \cup {0}
    /\ \A t, u \in Threads :
           (pc[u] = "c_wait" /\ pc[t] = "a_lock") =>
               /\ mu = 0
               /\ ~active

C15_Witness ==
    \E t, u \in Threads :
        /\ pc[u] = "c_wait"
        /\ pc[t] = "a_done"
        /\ issuedInactive[t]
        /\ ret[t] = ErrRegClosed
        /\ mu = 0

\* C11: the default checkpoint predicate returns true exactly for the log
\* sizes of at least 10,485,760 bytes, whatever it was asked before.
C11_DefaultCheckpointAt10MiB ==
    /\ cpResult = "true" => cpSize >= 10485760
    /\ cpResult = "false" => cpSize <= 10485759

C11_Witness ==
    /\ cpSize = 10485760
    /\ cpResult = "true"

\* C12: New fails, with no registry, exactly when the root is relative and
\* the working directory cannot be determined; otherwise it returns an active
\* registry whose root is absolute and clean, with 0600, 4096 and the default
\* predicate in place of unset values, and the given values otherwise.
C12_NewNormalizes ==
    newRet.state = "returned" =>
        LET given == newArgs.settings
            fails == ~IsAbs(given.Root) /\ newArgs.getwd.err # "nil"
        IN /\ fails => newRet.err # "nil" /\ newRet.registry = <<>>
           /\ ~fails =>
                /\ newRet.err = "nil"
                /\ Len(newRet.registry) = 1
                /\ LET r == newRet.registry[1] IN
                     /\ r.active = TRUE
                     /\ r.settings.FileMode =
                            (IF given.FileMode = 0 THEN 384 ELSE given.FileMode)
                     /\ r.settings.BufferSize =
                            (IF given.BufferSize = 0 THEN 4096 ELSE given.BufferSize)
                     /\ r.settings.Checkpoint =
                            (IF given.Checkpoint = "nil" THEN "defaultCheckpoint"
                             ELSE given.Checkpoint)
                     /\ r.settings.IgnoreVersionCheck = given.IgnoreVersionCheck
                     /\ IsAbs(r.settings.Root)
                     /\ Clean(r.settings.Root) = r.settings.Root
                     /\ IsAbs(given.Root) => r.settings.Root = Clean(given.Root)
                     /\ ~IsAbs(given.Root) =>
                            r.settings.Root = Join(newArgs.getwd.dir, given.Root)

C12_Witness ==
    /\ newRet.state = "returned"
    /\ newRet.err = "nil"
    /\ newArgs.settings.FileMode = 0
    /\ newArgs.settings.BufferSize = 0
    /\ newArgs.settings.Checkpoint = "nil"
    /\ newArgs.settings.Root = <<"a">>
    /\ newRet.registry[1].settings.Root = <<"/", "w", "/", "a">>

\* C16: when the FIFO path does not exist or is a directory, makeSpyder
\* returns an error and no client, and it has not opened the FIFO.
C16_MissingFifoFails ==
    (spyPc = "done" /\ spyEnv.stat \in {"notexist", "dir"}) =>
        /\ spyRet.err # "nil"
        /\ spyRet.clients = 0
        /\ ~spyOpened

\* The calls of one kind, in the order they were made.
CallsOf(kind) == SelectSeq(calls, LAMBDA c : c[1] = kind)

\* The events of the batch whose encoding or writing fails.
FailedEvents ==
    { i \in 1..Len(events) :
        \/ events[i].encode = "err"
        \/ events[i].write = "err"
        \/ events[i].nl = "err" }

\* len + 1 of the events that do not fail, in batch order.
RECURSIVE WrittenSizes(_)
WrittenSizes(i) ==
    IF i > Len(events) THEN <<>>
    ELSE IF i \in FailedEvents THEN WrittenSizes(i + 1)
    ELSE << <<"WriteBytes", events[i].len + 1>> >> \o WrittenSizes(i + 1)

\* C17: when Publish has returned, it returned nil; its calls start with
\* NewBatch(n) and end with Flush, ACK, Dropped(d), Acked(n - d), d being the
\* number of events that failed; the events were encoded in batch order, the
\* batch was ACKed once, and WriteBytes(len + 1) was reported for exactly the
\* events that did not fail.
C17_PublishAccounting ==
    pubPc = "done" =>
        LET n == Len(events)
            d == Cardinality(FailedEvents)
            k == Len(calls)
        IN /\ pubRet = "nil"
           /\ calls[1] = <<"NewBatch", n>>
           /\ Len(CallsOf("NewBatch")) = 1
           /\ CallsOf("Encode") = [i \in 1..n |-> <<"Encode", i>>]
           /\ SubSeq(calls, k - 3, k) =
                  << <<"Flush", 0>>, <<"ACK", 0>>, <<"Dropped", d>>, <<"Acked", n - d>> >>
           /\ Len(CallsOf("ACK")) = 1
           /\ Len(CallsOf("Dropped")) = 1
           /\ Len(CallsOf("Acked")) = 1
           /\ 0 <= d /\ d <= n
           /\ CallsOf("WriteBytes") = WrittenSizes(1)

C17_Witness ==
    /\ pubPc = "done"
    /\ Len(events) = 2
    /\ Cardinality(FailedEvents) = 1
    /\ events[1].nl = "err"

\* The calls made on the audit client, Close left out.
AuditSteps == SelectSeq(audCalls, LAMBDA c : c # "Close")
AuditCloses == SelectSeq(audCalls, LAMBDA c : c = "Close")

\* C18: the calls are a prefix of NewAuditClient, GetStatus, DeleteRules;
\* DeleteRules is called only with a client, a status read without error and
\* rules that are not locked; the result is nil exactly when DeleteRules was
\* called and succeeded; and on return the client, if it was created, has
\* been closed once, as the last call, and otherwise not at all.
C18_DeleteRulesSequence ==
    LET order == <<"NewAuditClient", "GetStatus", "DeleteRules">>
        deleted == Len(AuditSteps) = 3
    IN /\ Len(AuditSteps) <= 3
       /\ AuditSteps = SubSeq(order, 1, Len(AuditSteps))
       /\ deleted =>
            /\ audEnv.connect = "nil"
            /\ audEnv.status = "nil"
            /\ audEnv.enabled # 2
       /\ audPc = "done" =>
            /\ audRet # "none"
            /\ audRet = "nil" <=> (deleted /\ audEnv.delete = "nil")
            /\ (audEnv.connect # "nil" \/ audEnv.status # "nil"
                   \/ audEnv.enabled = 2) => (~deleted /\ audRet # "nil")
            /\ audEnv.connect = "nil" =>
                 /\ Len(AuditCloses) = 1
                 /\ audCalls[Len(audCalls)] = "Close"
            /\ audEnv.connect # "nil" => audCalls = <<"NewAuditClient">>
       /\ audPc # "done" => AuditCloses = <<>>

C18_Witness ==
    /\ audPc = "done"
    /\ audEnv.enabled = 2
    /\ audRet = "errLocked"
    /\ audCalls = <<"NewAuditClient", "GetStatus", "Close">>

\* C13: at every instant each checkpoint file that a crash may leave gives,
\* with the log replayed, the state the store has reached; the log is empty
\* during a rotation only once the new checkpoint is durable; and the state
\* recovered after a crash is the state the store had reached.
C13_RotationCrashSafe ==
    /\ \A c \in CrashViews : Replay(c, rotLog) = rotMem
    /\ (rotPc \in {"fsync_tmp", "rename", "fsync_dir", "truncate"}) => rotLog # <<>>
    /\ (rotPc = "ready" /\ rotLog = <<>>) =>
           (rotCkpt.synced /\ rotCkpt.dirSynced /\ rotCkpt.data = rotMem)
    /\ rotPc = "recovered" => rotRecovered = rotMem

C13_Witness ==
    /\ rotPc = "recovered"
    /\ rotTmp = NoTmp
    /\ rotCkpt.data = rotMem
    /\ rotLog # <<>>
    /\ rotMem["k1"] = 1
    /\ rotMem["k2"] = 2

====
